---- MODULE Spec2Model ----
(***************************************************************************)
(* A model of the data-validation framework: the validation strategies of  *)
(* src/src/validation/strategies.py and the orchestrator                   *)
(* DataValidator.validate_query of src/src/validation/validator.py.        *)
(*                                                                         *)
(* A pandas Series is a record [dtype, tz, data]: data maps the row labels *)
(* 0..n-1 (a RangeIndex) to cells, a cell is [na, v] (na = NaN/None/NaT).  *)
(* A DataFrame is a function from its column names to Series; the columns  *)
(* are iterated in the order of ColumnOrder.  Numbers are exact integers   *)
(* (float rounding is not modelled); timestamps are whole seconds.         *)
(* A call either returns a value or raises: [kind |-> "return", ...] or    *)
(* [kind |-> "raise", exc |-> <exception class name>].                     *)
(*                                                                         *)
(* A column has the same dtype in both frames.  strategies.py uses the     *)
(* names List (line 195) and re (line 169) without importing them; the     *)
(* strategies are modelled by their validate methods, on instances that    *)
(* hold their configuration.  validator.py uses ValidationError (line 39)  *)
(* without importing it, which RaiseByName models.                         *)
(***************************************************************************)
EXTENDS Integers, Sequences, FiniteSets, TLC

\* strategy: the strategy instance (its configuration)
\* source_db, target_db: what each data source answers to execute_query
\* expected_data, actual_data: the frames given to strategy.validate
\* outcome: what the last call returned or raised
\* invoked: the strategies whose validate the last call entered, in order
\* queries: the data sources the last call queried, in order
\* left: the instance and the two frames as the last call left them
\* first: the first validate call made on the instance, remembered
VARIABLES strategy, source_db, target_db, expected_data, actual_data, outcome, invoked, queries, left, first, pc

vars == <<strategy, source_db, target_db, expected_data, actual_data, outcome,
          invoked, queries, left, first, pc>>

----------------------------------------------------------------------------
(* Bounds of the model *)

MaxRows == 2

MaxTol == 1

MaxSubs == 2

----------------------------------------------------------------------------
(* Data model *)

ColumnOrder == <<"amt", "qty", "name", "email", "ts">>

NA(dtype) == [na |-> TRUE, v |-> IF dtype = "object" THEN "" ELSE 0]

Cell(x) == [na |-> FALSE, v |-> x]

RowLabels(n) == 0 .. (n - 1)

Abs(x) == IF x < 0 THEN -x ELSE x

\* DataFrame.columns, in iteration order
Columns(df) == SelectSeq(ColumnOrder, LAMBDA c : c \in DOMAIN df)

\* pandas.api.types.is_numeric_dtype / is_object_dtype / is_string_dtype /
\* is_datetime64_any_dtype on a column
is_numeric_dtype(s) == s.dtype = "float64"

is_object_dtype(s) == s.dtype = "object"

is_string_dtype(s) == s.dtype = "object"

is_datetime64_any_dtype(s) == s.dtype = "datetime64"

Return(differences) ==
    [kind |-> "return",
     status |-> IF DOMAIN differences # {} THEN "fail" ELSE "pass",
     differences |-> differences]

Raise(exc) == [kind |-> "raise", exc |-> exc]

\* The body shared by the column-scoped strategies: a loop over
\* expected_data.columns that adds differences[column] for the columns the
\* strategy flags and is left by the first exception a column raises.
\* colres[c] is [kind |-> "skip"], [kind |-> "diff", detail |-> d] or
\* [kind |-> "raise", exc |-> x].
ColumnLoop(expected, colres) ==
    LET cols == Columns(expected)
        raising == {i \in 1 .. Len(cols) : colres[cols[i]].kind = "raise"}
    IN  IF raising # {}
        THEN LET k == CHOOSE i \in raising : \A j \in raising : i <= j
             IN  Raise(colres[cols[k]].exc)
        ELSE LET flagged == {c \in DOMAIN expected : colres[c].kind = "diff"}
             IN  Return([c \in flagged |-> colres[c].detail])

Skip == [kind |-> "skip"]

RaiseIn(exc) == [kind |-> "raise", exc |-> exc]

Diff(d) == [kind |-> "diff", detail |-> d]

----------------------------------------------------------------------------
(* NumericValidation *)

\* (expected_data[column] - actual_data[column]).abs(): the two Series are
\* aligned on the union of their row labels; a label missing on one side,
\* or a NaN on either side, gives NaN.
NumericAbsDiff(es, as) ==
    [i \in (DOMAIN es.data) \cup (DOMAIN as.data) |->
        IF i \in DOMAIN es.data /\ i \in DOMAIN as.data
           /\ ~es.data[i].na /\ ~as.data[i].na
        THEN Cell(Abs(es.data[i].v - as.data[i].v))
        ELSE NA("float64")]

NumericMaskGe(diff, tolerance) ==
    {i \in DOMAIN diff : ~diff[i].na /\ diff[i].v >= tolerance}

\* diff > self.tolerance: a comparison with NaN is False
NumericMask(diff, tolerance) ==
    {i \in DOMAIN diff : ~diff[i].na /\ diff[i].v > tolerance}

\* frame.loc[mask, column].to_dict()
LocToDict(s, mask) == [i \in mask \cap DOMAIN s.data |-> s.data[i]]

NumericColumn(self, expected, actual, c) ==
    IF ~is_numeric_dtype(expected[c]) THEN Skip
    ELSE IF c \notin DOMAIN actual THEN RaiseIn("KeyError")
    ELSE LET diff == NumericAbsDiff(expected[c], actual[c])
             mask == NumericMask(diff, self.tolerance)
         IN  IF mask # {}
             THEN Diff([expected |-> LocToDict(expected[c], mask),
                        actual |-> LocToDict(actual[c], mask)])
             ELSE Skip

NumericValidate(self, expected, actual) ==
    ColumnLoop(expected, [c \in DOMAIN expected |-> NumericColumn(self, expected, actual, c)])

----------------------------------------------------------------------------
(* CategoricalValidation *)

\* Series != Series: the two must be identically labelled (else ValueError);
\* for object values a missing value on either side compares as unequal.
SeriesNe(es, as) ==
    {i \in DOMAIN es.data :
        es.data[i].na \/ as.data[i].na \/ es.data[i].v # as.data[i].v}

CategoricalColumn(expected, actual, c) ==
    IF ~is_object_dtype(expected[c]) THEN Skip
    ELSE IF c \notin DOMAIN actual THEN RaiseIn("KeyError")
    ELSE IF DOMAIN expected[c].data # DOMAIN actual[c].data
    THEN RaiseIn("ValueError")
    ELSE LET mask == SeriesNe(expected[c], actual[c])
         IN  IF mask # {}
             THEN Diff([expected |-> LocToDict(expected[c], mask),
                        actual |-> LocToDict(actual[c], mask)])
             ELSE Skip

CategoricalValidate(self, expected, actual) ==
    ColumnLoop(expected, [c \in DOMAIN expected |-> CategoricalColumn(expected, actual, c)])

----------------------------------------------------------------------------
(* NullValidation *)

\* Series == '<text>': true only for a present text value equal to it
SeriesEqStr(s, i, text) ==
    s.dtype = "object" /\ ~s.data[i].na /\ s.data[i].v = text

NullFlagsAlwaysEmpty(self, s) ==
    {i \in DOMAIN s.data :
        \/ s.data[i].na
        \/ SeriesEqStr(s, i, "") \/ SeriesEqStr(s, i, "null/empty")}

\* series.isna(), or-ed in place (on the fresh isna() result, not on the
\* column) with (series == '') | (series == 'null/empty') when
\* treat_empty_as_null is set: the set of row labels flagged null
NullFlags(self, s) ==
    {i \in DOMAIN s.data :
        \/ s.data[i].na
        \/ /\ self.treat_empty_as_null
           /\ (SeriesEqStr(s, i, "") \/ SeriesEqStr(s, i, "null/empty"))}

\* index.tolist() of an increasing index: the labels in increasing order
RECURSIVE SortedList(_)
SortedList(S) ==
    IF S = {} THEN << >>
    ELSE LET m == CHOOSE x \in S : \A y \in S : x <= y
         IN  <<m>> \o SortedList(S \ {m})

NullColumn(self, expected, actual, c) ==
    IF c \notin DOMAIN actual THEN RaiseIn("KeyError")
    ELSE IF DOMAIN expected[c].data # DOMAIN actual[c].data
    THEN RaiseIn("ValueError")
    ELSE LET expected_nulls == NullFlags(self, expected[c])
             actual_nulls == NullFlags(self, actual[c])
             mask == {i \in DOMAIN expected[c].data :
                         (i \in expected_nulls) # (i \in actual_nulls)}
         IN  IF mask # {}
             THEN Diff([mismatched_rows |-> Cardinality(mask),
                        expected_null_count |-> Cardinality(expected_nulls),
                        actual_null_count |-> Cardinality(actual_nulls),
                        rows_with_differences |-> SortedList(mask)])
             ELSE Skip

NullValidate(self, expected, actual) ==
    ColumnLoop(expected, [c \in DOMAIN expected |-> NullColumn(self, expected, actual, c)])

----------------------------------------------------------------------------
(* DateTimeValidation *)

\* Seconds east of UTC of a time zone; a tz-aware cell holds the UTC instant,
\* a naive one ("none") the wall-clock time.
TzOffset(tz) == CASE tz = "none" -> 0 [] tz = "UTC" -> 0 [] tz = "plus1" -> 3600

\* pd.DatetimeIndex(series).tz_localize(None): the wall-clock times
WallClock(s) ==
    [i \in DOMAIN s.data |->
        IF s.data[i].na THEN s.data[i] ELSE Cell(s.data[i].v + TzOffset(s.tz))]

\* abs(expected_col - actual_col) > self.allowed_difference for two columns
\* of cells over the same labels; NaT compares False
TimeMask(ecol, acol, labels, allowed) ==
    {i \in labels :
        /\ i \in DOMAIN ecol /\ i \in DOMAIN acol
        /\ ~ecol[i].na /\ ~acol[i].na
        /\ Abs(ecol[i].v - acol[i].v) > allowed}

\* The mask of one timestamp column, or the exception the subtraction raises:
\* two DatetimeIndex of unequal length (ValueError), or a tz-aware and a
\* tz-naive Series (TypeError); two Series are aligned on their labels.
DateTimeMask(self, es, as) ==
    IF ~self.timezone_aware
    THEN IF DOMAIN es.data # DOMAIN as.data THEN RaiseIn("ValueError")
         ELSE [kind |-> "mask",
               mask |-> TimeMask(WallClock(es), WallClock(as), DOMAIN es.data,
                                 self.allowed_difference)]
    ELSE IF (es.tz = "none") # (as.tz = "none") THEN RaiseIn("TypeError")
         ELSE [kind |-> "mask",
               mask |-> TimeMask(es.data, as.data,
                                 (DOMAIN es.data) \cup (DOMAIN as.data),
                                 self.allowed_difference)]

\* Building the detail of a mismatching column: time_diff[mask] is a Series
\* (timezone_aware) and has no total_seconds(), or a TimedeltaIndex whose
\* total_seconds() is an Index, which has no to_dict(): AttributeError.
DateTimeDetail(self, es, as, mask) == RaiseIn("AttributeError")

DateTimeColumn(self, expected, actual, c) ==
    IF ~is_datetime64_any_dtype(expected[c]) THEN Skip
    ELSE IF c \notin DOMAIN actual THEN RaiseIn("KeyError")
    ELSE LET m == DateTimeMask(self, expected[c], actual[c])
         IN  IF m.kind = "raise" THEN m
             ELSE IF m.mask # {}
             THEN DateTimeDetail(self, expected[c], actual[c], m.mask)
             ELSE Skip

DateTimeValidate(self, expected, actual) ==
    ColumnLoop(expected, [c \in DOMAIN expected |-> DateTimeColumn(self, expected, actual, c)])

----------------------------------------------------------------------------
(* DistributionValidation *)

\* A statistic is [nan, num, den, root]: the number num/den (den > 0), or its
\* square root when root is set (the standard deviation); nan for NaN.
Stat(num, den) == [nan |-> FALSE, num |-> num, den |-> den, root |-> FALSE]

Root(num, den) == [nan |-> FALSE, num |-> num, den |-> den, root |-> TRUE]

StatNaN == [nan |-> TRUE, num |-> 0, den |-> 1, root |-> FALSE]

\* The values of a column the statistics are taken over: pandas skips NaN
Present(s) == {i \in DOMAIN s.data : ~s.data[i].na}

\* The sum of term[i] over the labels
RECURSIVE SumOver(_, _)
SumOver(term, labels) ==
    IF labels = {} THEN 0
    ELSE LET i == CHOOSE x \in labels : TRUE
         IN  term[i] + SumOver(term, labels \ {i})

\* The k-th smallest (k from 1) of the present values, by rank
KthSmallest(s, k) ==
    LET P == Present(s)
        rank(i) == Cardinality({j \in P : s.data[j].v < s.data[i].v
                                          \/ (s.data[j].v = s.data[i].v /\ j < i)})
    IN  s.data[CHOOSE i \in P : rank(i) = k - 1].v

SeriesMean(s) ==
    LET n == Cardinality(Present(s))
    IN  IF n = 0 THEN StatNaN
        ELSE Stat(SumOver([i \in Present(s) |-> s.data[i].v], Present(s)), n)

SeriesMedian(s) ==
    LET n == Cardinality(Present(s))
    IN  IF n = 0 THEN StatNaN
        ELSE IF n % 2 = 1 THEN Stat(KthSmallest(s, (n + 1) \div 2), 1)
        ELSE Stat(KthSmallest(s, n \div 2) + KthSmallest(s, n \div 2 + 1), 2)

\* Series.std(): the sample standard deviation (ddof = 1), NaN below 2 values
SeriesStd(s) ==
    LET n == Cardinality(Present(s))
        sum == SumOver([i \in Present(s) |-> s.data[i].v], Present(s))
        sumsq == SumOver([i \in Present(s) |-> s.data[i].v * s.data[i].v],
                         Present(s))
    IN  IF n < 2 THEN StatNaN
        ELSE Root(n * sumsq - sum * sum, n * (n - 1))

SeriesMin(s) ==
    LET n == Cardinality(Present(s))
    IN  IF n = 0 THEN StatNaN ELSE Stat(KthSmallest(s, 1), 1)

SeriesMax(s) ==
    LET n == Cardinality(Present(s))
    IN  IF n = 0 THEN StatNaN ELSE Stat(KthSmallest(s, n), 1)

StatNames == {"mean", "median", "std", "min", "max"}

SeriesStats(s) ==
    [stat \in StatNames |->
        CASE stat = "mean" -> SeriesMean(s)
          [] stat = "median" -> SeriesMedian(s)
          [] stat = "std" -> SeriesStd(s)
          [] stat = "min" -> SeriesMin(s)
          [] stat = "max" -> SeriesMax(s)]

\* expected_value != 0 (NaN != 0 is True)
StatNonZero(e) == e.nan \/ e.num # 0

\* abs(expected_value - actual_value) / expected_value * 100 > threshold_pct,
\* decided without dividing.  The quotient has the sign of expected_value, so
\* for a negative expected_value the inequality turns round; a NaN on either
\* side gives NaN, which exceeds nothing.  For two roots (which are >= 0) the
\* comparison is made on the squares.
PctDiffExceeds(e, a, p) ==
    IF e.nan \/ a.nan THEN FALSE
    ELSE IF ~e.root
    THEN LET lhs == Abs(e.num * a.den - a.num * e.den) * 100
             rhs == p * a.den * e.num
         IN  IF e.num > 0 THEN lhs > rhs ELSE lhs < rhs
    ELSE \/ a.num * e.den * 10000 > (100 + p) * (100 + p) * e.num * a.den
         \/ /\ p < 100
            /\ a.num * e.den * 10000 < (100 - p) * (100 - p) * e.num * a.den

\* difference_pct, kept as the unevaluated quotient
PctDiff(e, a) == [abs_of_difference |-> <<e, a>>, over |-> e, times |-> 100]

DistributionColumn(self, expected, actual, c) ==
    IF ~is_numeric_dtype(expected[c]) THEN Skip
    ELSE IF c \notin DOMAIN actual THEN RaiseIn("KeyError")
    ELSE LET expected_stats == SeriesStats(expected[c])
             actual_stats == SeriesStats(actual[c])
             flagged == {stat \in StatNames :
                            /\ StatNonZero(expected_stats[stat])
                            /\ PctDiffExceeds(expected_stats[stat],
                                              actual_stats[stat],
                                              self.threshold_pct)}
         IN  IF flagged # {}
             THEN Diff([stat \in flagged |->
                          [expected |-> expected_stats[stat],
                           actual |-> actual_stats[stat],
                           difference_pct |-> PctDiff(expected_stats[stat],
                                                      actual_stats[stat])]])
             ELSE Skip

DistributionValidate(self, expected, actual) ==
    ColumnLoop(expected, [c \in DOMAIN expected |-> DistributionColumn(self, expected, actual, c)])

----------------------------------------------------------------------------
(* PatternValidation *)

EmailPattern == "^\\S+@\\S+$"

WordPattern == "^[a-z]+$"

\* The characters of the text values of the model
StrChars(text) ==
    CASE text = "" -> << >>
      [] text = "bad" -> <<"b", "a", "d">>
      [] text = "a@b" -> <<"a", "@", "b">>
      [] text = "a @b" -> <<"a", " ", "@", "b">>
      [] text = "null/empty" ->
            <<"n", "u", "l", "l", "/", "e", "m", "p", "t", "y">>

LowerCase == {"a", "b", "d", "e", "l", "m", "n", "p", "t", "u", "y"}

\* re.match of a compiled pattern against a text
ReMatch(pattern, text) ==
    LET cs == StrChars(text)
        n == Len(cs)
    IN  CASE pattern = EmailPattern ->
                /\ \A k \in 1 .. n : cs[k] # " "
                /\ \E k \in 2 .. (n - 1) : cs[k] = "@"
          [] pattern = WordPattern ->
                n >= 1 /\ \A k \in 1 .. n : cs[k] \in LowerCase

\* series.str.match(pattern).fillna(False): the labels whose value matches
StrMatch(s, pattern) ==
    {i \in DOMAIN s.data : ~s.data[i].na /\ ReMatch(pattern, s.data[i].v)}

PatternColumn(self, expected, actual, c) ==
    IF ~is_string_dtype(expected[c]) THEN Skip
    ELSE IF c \notin DOMAIN self.patterns THEN Skip
    ELSE IF c \notin DOMAIN actual THEN RaiseIn("KeyError")
    ELSE IF DOMAIN expected[c].data # DOMAIN actual[c].data
    THEN RaiseIn("ValueError")
    ELSE LET expected_matches == StrMatch(expected[c], self.patterns[c])
             actual_matches == StrMatch(actual[c], self.patterns[c])
             mask == {i \in DOMAIN expected[c].data :
                         (i \in expected_matches) # (i \in actual_matches)}
         IN  IF mask # {}
             THEN Diff([mismatched_rows |-> Cardinality(mask),
                        invalid_values |->
                            LocToDict(actual[c],
                                      (DOMAIN actual[c].data) \ actual_matches)])
             ELSE Skip

PatternValidate(self, expected, actual) ==
    ColumnLoop(expected, [c \in DOMAIN expected |-> PatternColumn(self, expected, actual, c)])

----------------------------------------------------------------------------
(* CompositeValidation, and the dispatch of strategy.validate *)

DictSetDropped(d, key, value) == d

\* dict[key] = value
DictSet(d, key, value) ==
    [k \in (DOMAIN d) \cup {key} |-> IF k = key THEN value ELSE d[k]]

EmptyDict == [k \in {} |-> 0]

\* strategy.__class__.__name__
ClassName(self) == self.kind

\* ValidateRun(self, e, a) is [result, trace]: what self.validate(e, a)
\* returns or raises, and the strategies whose validate was entered, in order.
RECURSIVE ValidateRun(_, _, _)
RECURSIVE CompositeLoop(_, _, _, _, _, _, _)

\* The for loop of CompositeValidation.validate from the i-th sub-strategy on
CompositeLoop(strategies, i, expected, actual, all_differences, overall_status, trace) ==
    IF i > Len(strategies)
    THEN [result |-> [kind |-> "return", status |-> overall_status,
                      differences |-> all_differences],
          trace |-> trace]
    ELSE LET r == ValidateRun(strategies[i], expected, actual)
         IN  IF r.result.kind = "raise"
             THEN [result |-> r.result, trace |-> trace \o r.trace]
             ELSE IF r.result.status = "fail"
             THEN CompositeLoop(strategies, i + 1, expected, actual,
                                DictSet(all_differences,
                                        ClassName(strategies[i]),
                                        r.result.differences),
                                "fail", trace \o r.trace)
             ELSE CompositeLoop(strategies, i + 1, expected, actual,
                                all_differences, overall_status,
                                trace \o r.trace)

CompositeValidate(self, expected, actual) ==
    CompositeLoop(self.strategies, 1, expected, actual, EmptyDict, "pass",
                  << >>)

ValidateRun(self, expected, actual) ==
    IF self.kind = "CompositeValidation"
    THEN LET r == CompositeValidate(self, expected, actual)
         IN  [result |-> r.result, trace |-> <<self>> \o r.trace]
    ELSE [result |->
            CASE self.kind = "NumericValidation" ->
                    NumericValidate(self, expected, actual)
              [] self.kind = "CategoricalValidation" ->
                    CategoricalValidate(self, expected, actual)
              [] self.kind = "DateTimeValidation" ->
                    DateTimeValidate(self, expected, actual)
              [] self.kind = "NullValidation" ->
                    NullValidate(self, expected, actual)
              [] self.kind = "DistributionValidation" ->
                    DistributionValidate(self, expected, actual)
              [] self.kind = "PatternValidation" ->
                    PatternValidate(self, expected, actual),
          trace |-> <<self>>]

\* As if NullValidation normalised the expected frame in place
ValidateEffectInPlace(self, expected, actual) ==
    [self |-> self,
     expected_data |->
        IF self.kind = "NullValidation" /\ self.treat_empty_as_null
        THEN [c \in DOMAIN expected |->
                [expected[c] EXCEPT !.data =
                    [i \in DOMAIN expected[c].data |->
                        IF SeriesEqStr(expected[c], i, "")
                        THEN [na |-> TRUE, v |-> ""]
                        ELSE expected[c].data[i]]]]
        ELSE expected,
     actual_data |-> actual]

\* What a validate call leaves behind in the objects it was given: no validate
\* method assigns to an attribute of self or writes into either frame.
ValidateEffect(self, expected, actual) ==
    [self |-> self, expected_data |-> expected, actual_data |-> actual]

----------------------------------------------------------------------------
(* DataValidator.validate_query *)

\* The names bound in the namespace of validator.py (its imports and its
\* class), and the builtins
ValidatorNames ==
    {"Dict", "Any", "List", "pd", "DatabaseConnector", "ValidationStrategy",
     "DataValidator", "Exception", "len", "str"}

\* raise <name>(...) in validator.py: an unbound name raises NameError
RaiseByName(name, cause) ==
    IF name \in ValidatorNames
    THEN [kind |-> "raise", exc |-> name, cause |-> cause]
    ELSE [kind |-> "raise", exc |-> "NameError", cause |-> "none"]

\* source_data.columns.intersection(target_data.columns)
CommonColumns(source_data, target_data) ==
    (DOMAIN source_data) \cap (DOMAIN target_data)

ProjectNothing(frame, common_columns) == frame

\* frame[common_columns]
Project(frame, common_columns) == [c \in common_columns |-> frame[c]]

\* len(frame): the row labels of its columns; a projection keeps the index
RowCount(frame) ==
    LET c == CHOOSE c \in DOMAIN frame : TRUE IN Cardinality(DOMAIN frame[c].data)

\* validate_query with the answers source and target give to execute_query
\* (a frame, or an exception).  The result is what it returns or raises;
\* queries lists the data sources queried, in order.
ValidateQuery(self, source, target) ==
    IF source.kind = "raise"
    THEN [result |-> RaiseByName("ValidationError", source.exc),
          queries |-> <<"source">>, ran |-> FALSE,
          expected_data |-> EmptyDict, actual_data |-> EmptyDict,
          trace |-> << >>]
    ELSE IF target.kind = "raise"
    THEN [result |-> RaiseByName("ValidationError", target.exc),
          queries |-> <<"source", "target">>, ran |-> FALSE,
          expected_data |-> EmptyDict, actual_data |-> EmptyDict,
          trace |-> << >>]
    ELSE LET common_columns == CommonColumns(source.frame, target.frame)
             source_data == Project(source.frame, common_columns)
             target_data == Project(target.frame, common_columns)
             r == ValidateRun(self, source_data, target_data)
         IN  [result |->
                IF r.result.kind = "raise"
                THEN RaiseByName("ValidationError", r.result.exc)
                ELSE [kind |-> "return",
                      status |-> r.result.status,
                      details |-> IF r.result.status = "fail"
                                  THEN r.result.differences ELSE EmptyDict,
                      source_rows |-> RowCount(source.frame),
                      target_rows |-> RowCount(target.frame)],
              queries |-> <<"source", "target">>, ran |-> TRUE,
              expected_data |-> source_data, actual_data |-> target_data,
              trace |-> r.trace]

----------------------------------------------------------------------------
(* The state machine *)

NoDb == [kind |-> "none"]

NoOutcome == [kind |-> "none"]

NoCall == [kind |-> "none"]

\* Before any call: the strategy and the frames are given, nothing has run
Ready ==
    /\ source_db = NoDb
    /\ target_db = NoDb
    /\ outcome = NoOutcome
    /\ invoked = << >>
    /\ queries = << >>
    /\ left = NoCall
    /\ first = NoCall
    /\ pc = "ready"

\* strategy.validate(expected_data, actual_data), called directly.  The
\* instance goes on as the call left it; first remembers the first call: the
\* instance as constructed, the frames as given, the outcome, the two frame
\* objects as the latest call on them left them, whether the current call
\* is on those objects, and whether they were passed again (repeated) and
\* other frames were passed (other) since.
CallValidate ==
    /\ pc = "ready"
    /\ source_db = NoDb
    /\ LET r == ValidateRun(strategy, expected_data, actual_data)
           eff == ValidateEffect(strategy, expected_data, actual_data)
       IN  /\ outcome' = r.result
           /\ invoked' = r.trace
           /\ left' = eff
           /\ strategy' = eff.self
           /\ first' = IF first = NoCall
                       THEN [kind |-> "call", strategy |-> strategy,
                             expected_data |-> expected_data,
                             actual_data |-> actual_data,
                             outcome |-> r.result,
                             objects |-> <<eff.expected_data, eff.actual_data>>,
                             again |-> TRUE, repeated |-> FALSE,
                             other |-> FALSE]
                       ELSE IF first.again
                       THEN [first EXCEPT !.objects = <<eff.expected_data,
                                                        eff.actual_data>>]
                       ELSE first
    /\ pc' = "done"
    /\ UNCHANGED <<source_db, target_db, queries, expected_data, actual_data>>

\* The caller passes the frame objects of the first call once more
CallAgain ==
    /\ pc = "done"
    /\ source_db = NoDb
    /\ expected_data' = first.objects[1]
    /\ actual_data' = first.objects[2]
    /\ first' = [first EXCEPT !.again = TRUE, !.repeated = TRUE]
    /\ outcome' = NoOutcome
    /\ invoked' = << >>
    /\ pc' = "ready"
    /\ UNCHANGED <<strategy, source_db, target_db, queries, left>>

\* The caller passes two other frames
CallOther(expected, actual) ==
    /\ pc = "done"
    /\ source_db = NoDb
    /\ expected_data' = expected
    /\ actual_data' = actual
    /\ first' = [first EXCEPT !.again = FALSE, !.other = TRUE]
    /\ outcome' = NoOutcome
    /\ invoked' = << >>
    /\ pc' = "ready"
    /\ UNCHANGED <<strategy, source_db, target_db, queries, left>>

\* validator.validate_query(source_query, target_query, params)
CallValidateQuery ==
    /\ pc = "ready"
    /\ source_db # NoDb
    /\ LET q == ValidateQuery(strategy, source_db, target_db)
       IN  /\ outcome' = q.result
           /\ queries' = q.queries
           /\ invoked' = q.trace
           /\ expected_data' = q.expected_data
           /\ actual_data' = q.actual_data
           /\ left' = IF q.ran
                      THEN ValidateEffect(strategy, q.expected_data,
                                          q.actual_data)
                      ELSE left
    /\ pc' = "done"
    /\ UNCHANGED <<strategy, source_db, target_db, first>>

NextValidate == CallValidate

----------------------------------------------------------------------------
(* Inputs *)

Series(dtype, tz, data) == [dtype |-> dtype, tz |-> tz, data |-> data]

\* A column holding the same cell in each of n rows
ConstSeries(dtype, tz, cell, n) ==
    Series(dtype, tz, [i \in RowLabels(n) |-> cell])

NumericStrategies ==
    {[kind |-> "NumericValidation", tolerance |-> t] : t \in 0 .. MaxTol}

ExpectedAmounts == {Cell(0), Cell(2), NA("float64")}

ActualAmounts == {Cell(0), Cell(1), Cell(3), NA("float64")}

Quantities == {Cell(0), Cell(5)}

\* Frames of up to MaxRows rows with two numeric columns and a text column
NumericFrames(amounts, text) ==
    UNION {{[amt |-> Series("float64", "none", d),
             qty |-> ConstSeries("float64", "none", q, n),
             name |-> ConstSeries("object", "none", Cell(text), n)] :
                d \in [RowLabels(n) -> amounts], q \in Quantities} :
           n \in 0 .. MaxRows}

InitNumeric ==
    /\ strategy \in NumericStrategies
    /\ expected_data \in NumericFrames(ExpectedAmounts, "bad")
    /\ actual_data \in NumericFrames(ActualAmounts, "a@b")
    /\ Ready

SpecNumeric == InitNumeric /\ [][NextValidate]_vars

\* CategoricalValidation: one text column
TextCells == {Cell("bad"), Cell("a@b"), NA("object")}

TextFrames ==
    UNION {{[name |-> Series("object", "none", d)] :
                d \in [RowLabels(n) -> TextCells]} :
           n \in 0 .. MaxRows}

InitCategorical ==
    /\ strategy = [kind |-> "CategoricalValidation"]
    /\ expected_data \in TextFrames
    /\ actual_data \in TextFrames
    /\ Ready

\* NullValidation: a text column and a numeric column
NullStrategies ==
    {[kind |-> "NullValidation", treat_empty_as_null |-> b] : b \in BOOLEAN}

NullableTexts == {Cell(""), Cell("null/empty"), Cell("bad"), NA("object")}

NullableAmounts == {Cell(0), NA("float64")}

NullFrames ==
    UNION {{[name |-> Series("object", "none", d),
             amt |-> ConstSeries("float64", "none", q, n)] :
                d \in [RowLabels(n) -> NullableTexts], q \in NullableAmounts} :
           n \in 0 .. MaxRows}

InitNull ==
    /\ strategy \in NullStrategies
    /\ expected_data \in NullFrames
    /\ actual_data \in NullFrames
    /\ Ready

SpecNull == InitNull /\ [][NextValidate]_vars

\* DistributionValidation: one numeric column
ThresholdPcts == {0, 50, 100}

DistributionStrategies ==
    {[kind |-> "DistributionValidation", threshold_pct |-> p] :
        p \in ThresholdPcts}

ExpectedSamples == {Cell(-2), Cell(0), Cell(2)}

ActualSamples == {Cell(-3), Cell(-2), Cell(0), Cell(1), Cell(2)}

SampleFrames(samples) ==
    UNION {{[amt |-> Series("float64", "none", d)] :
                d \in [RowLabels(n) -> samples]} :
           n \in 0 .. MaxRows}

InitDistribution ==
    /\ strategy \in DistributionStrategies
    /\ expected_data \in SampleFrames(ExpectedSamples)
    /\ actual_data \in SampleFrames(ActualSamples)
    /\ Ready

SpecDistribution == InitDistribution /\ [][NextValidate]_vars

\* PatternValidation: two text columns, patterns for one, both or none
PatternConfigs ==
    {[email |-> EmailPattern],
     [email |-> EmailPattern, name |-> WordPattern],
     EmptyDict}

PatternStrategies ==
    {[kind |-> "PatternValidation", patterns |-> ps] : ps \in PatternConfigs}

EmailCells == {Cell("a@b"), Cell("bad"), Cell("a @b"), NA("object")}

NameCells == {Cell("bad"), Cell("")}

EmailFrames ==
    UNION {{[email |-> Series("object", "none", d),
             name |-> ConstSeries("object", "none", q, n)] :
                d \in [RowLabels(n) -> EmailCells], q \in NameCells} :
           n \in 0 .. MaxRows}

InitPattern ==
    /\ strategy \in PatternStrategies
    /\ expected_data \in EmailFrames
    /\ actual_data \in EmailFrames
    /\ Ready

SpecPattern == InitPattern /\ [][NextValidate]_vars

\* DateTimeValidation: one timestamp column, naive or in one of two zones
AllowedSeconds == {0, 1}

DateTimeStrategies ==
    {[kind |-> "DateTimeValidation", timezone_aware |-> b,
      allowed_difference |-> d] : b \in BOOLEAN, d \in AllowedSeconds}

TimeZones == {"none", "UTC", "plus1"}

ExpectedTimes == {Cell(0), Cell(1), NA("datetime64")}

ActualTimes == {Cell(0), Cell(2), Cell(3600)}

TimeFrames(times) ==
    UNION {{[ts |-> Series("datetime64", tz, d)] :
                d \in [RowLabels(n) -> times], tz \in TimeZones} :
           n \in 0 .. MaxRows}

InitDateTime ==
    /\ strategy \in DateTimeStrategies
    /\ expected_data \in TimeFrames(ExpectedTimes)
    /\ actual_data \in TimeFrames(ActualTimes)
    /\ Ready

SpecDateTime == InitDateTime /\ [][NextValidate]_vars

\* CompositeValidation: up to MaxSubs sub-strategies, also nested
Composite(subs) == [kind |-> "CompositeValidation", strategies |-> subs]

Leaves ==
    {[kind |-> "NumericValidation", tolerance |-> 0],
     [kind |-> "NumericValidation", tolerance |-> 1],
     [kind |-> "CategoricalValidation"],
     [kind |-> "NullValidation", treat_empty_as_null |-> TRUE]}

SeqsUpTo(S, n) == UNION {[1 .. k -> S] : k \in 0 .. n}

FlatComposites == {Composite(subs) : subs \in SeqsUpTo(Leaves, MaxSubs)}

NestedComposites ==
    {Composite(<<Composite(inner)>> \o rest) :
        inner \in SeqsUpTo(Leaves, 1), rest \in SeqsUpTo(Leaves, 1)}
    \cup {Composite(<<l, Composite(<<Composite(<<l>>)>>)>>) : l \in Leaves}

CompositeStrategies == FlatComposites \cup NestedComposites

MixedFrames(amounts, texts) ==
    UNION {{[amt |-> Series("float64", "none", d),
             name |-> ConstSeries("object", "none", q, n)] :
                d \in [RowLabels(n) -> amounts], q \in texts} :
           n \in 0 .. MaxRows}

InitComposite ==
    /\ strategy \in CompositeStrategies
    /\ expected_data \in MixedFrames({Cell(0), Cell(2)}, {Cell("bad"), Cell("")})
    /\ actual_data \in MixedFrames({Cell(0), Cell(3)}, {Cell("bad"), NA("object")})
    /\ Ready

SpecComposite == InitComposite /\ [][NextValidate]_vars

\* Every strategy, on every input above
InitStrategies ==
    \/ InitNumeric
    \/ InitCategorical
    \/ InitNull
    \/ InitDistribution
    \/ InitPattern
    \/ InitDateTime
    \/ InitComposite

SpecStrategies == InitStrategies /\ [][NextValidate]_vars

\* Reuse of one instance: CallValidate, then the same frames again or others
ReuseStrategies ==
    {[kind |-> "NumericValidation", tolerance |-> 0],
     [kind |-> "CategoricalValidation"],
     [kind |-> "NullValidation", treat_empty_as_null |-> TRUE],
     [kind |-> "NullValidation", treat_empty_as_null |-> FALSE],
     [kind |-> "DistributionValidation", threshold_pct |-> 50],
     [kind |-> "PatternValidation", patterns |-> [name |-> WordPattern]],
     [kind |-> "DateTimeValidation", timezone_aware |-> TRUE,
      allowed_difference |-> 0],
     Composite(<<[kind |-> "NumericValidation", tolerance |-> 0],
                 [kind |-> "NullValidation", treat_empty_as_null |-> TRUE]>>)}

ReuseFrame(n, amount, text) ==
    [amt |-> ConstSeries("float64", "none", amount, n),
     name |-> ConstSeries("object", "none", text, n),
     ts |-> ConstSeries("datetime64", "none", Cell(0), n)]

\* Pairs of frames of the same length
ReusePairs ==
    {<<ReuseFrame(n, Cell(2), Cell("")), ReuseFrame(n, amount, text)>> :
        n \in 1 .. MaxRows, amount \in {Cell(0), Cell(2)},
        text \in {Cell(""), Cell("bad"), NA("object")}}

InitReuse ==
    /\ strategy \in ReuseStrategies
    /\ \E pair \in ReusePairs :
        /\ expected_data = pair[1]
        /\ actual_data = pair[2]
    /\ Ready

NextReuse ==
    \/ CallValidate
    \/ CallAgain
    \/ \E pair \in ReusePairs : CallOther(pair[1], pair[2])

SpecReuse == InitReuse /\ [][NextReuse]_vars

\* validate_query: two data sources whose answers have columns of their own
ValidatorStrategies ==
    {[kind |-> "NumericValidation", tolerance |-> 0],
     [kind |-> "CategoricalValidation"],
     [kind |-> "NullValidation", treat_empty_as_null |-> FALSE],
     [kind |-> "DistributionValidation", threshold_pct |-> 50],
     [kind |-> "PatternValidation",
      patterns |-> [email |-> EmailPattern, name |-> WordPattern]],
     [kind |-> "DateTimeValidation", timezone_aware |-> TRUE,
      allowed_difference |-> 0],
     Composite(<<[kind |-> "NumericValidation", tolerance |-> 0],
                 [kind |-> "CategoricalValidation"]>>)}

Answer(frame) == [kind |-> "return", frame |-> frame]

\* execute_query raises DatabaseError for any failure of the data source
QueryFailed == [kind |-> "raise", exc |-> "DatabaseError"]

SourceFrames ==
    UNION {{[amt |-> Series("float64", "none", d),
             name |-> ConstSeries("object", "none", q, n),
             qty |-> ConstSeries("float64", "none", Cell(5), n),
             ts |-> ConstSeries("datetime64", "none", Cell(0), n)] :
                d \in [RowLabels(n) -> {Cell(0), Cell(2)}],
                q \in {Cell("bad"), Cell("")}} :
           n \in 0 .. MaxRows}

TargetFrames ==
    UNION {{[amt |-> Series("float64", "none", d),
             name |-> ConstSeries("object", "none", q, n),
             email |-> ConstSeries("object", "none", Cell("bad"), n),
             ts |-> ConstSeries("datetime64", "none", Cell(0), n)] :
                d \in [RowLabels(n) -> {Cell(0), Cell(3)}],
                q \in {Cell("bad"), NA("object")}} :
           n \in 0 .. MaxRows}

SourceColumnSets == {{"amt", "name"}, {"amt", "name", "qty"}, {"amt", "qty", "ts"}}

TargetColumnSets == {{"amt", "name"}, {"amt", "name", "email"}, {"name", "email"}}

Restrict(frame, columns) == [c \in columns |-> frame[c]]

SourceAnswers ==
    {QueryFailed} \cup
    {Answer(Restrict(f, cs)) : f \in SourceFrames, cs \in SourceColumnSets}

TargetAnswers ==
    {QueryFailed} \cup
    {Answer(Restrict(f, cs)) : f \in TargetFrames, cs \in TargetColumnSets}

Init ==
    /\ strategy \in ValidatorStrategies
    /\ source_db \in SourceAnswers
    /\ target_db \in TargetAnswers
    /\ expected_data = EmptyDict
    /\ actual_data = EmptyDict
    /\ outcome = NoOutcome
    /\ invoked = << >>
    /\ queries = << >>
    /\ left = NoCall
    /\ first = NoCall
    /\ pc = "ready"

Next == CallValidateQuery

Spec == Init /\ [][Next]_vars

\* validate_query step by step: the body of the try block runs in order and the
\* first exception leaves it for the except clause, which raises and ends the
\* call.
AfterFetchGoesOn(answer, next) == next

\* Where the call stands after a data source has answered
AfterFetch(answer, next) == IF answer.kind = "raise" THEN "done" ELSE next

\* The call ends: what it returns or raises is that of ValidateQuery
EndOfCall(at) ==
    IF at = "done"
    THEN outcome' = ValidateQuery(strategy, source_db, target_db).result
    ELSE outcome' = outcome

\* source_data = self.source_db.execute_query(source_query, params)
QuerySource ==
    /\ pc = "ready"
    /\ source_db # NoDb
    /\ queries' = Append(queries, "source")
    /\ pc' = AfterFetch(source_db, "source_fetched")
    /\ EndOfCall(pc')
    /\ UNCHANGED <<strategy, source_db, target_db, expected_data, actual_data,
                   invoked, left, first>>

\* target_data = self.target_db.execute_query(target_query, params)
QueryTarget ==
    /\ pc = "source_fetched"
    /\ queries' = Append(queries, "target")
    /\ pc' = AfterFetch(target_db, "target_fetched")
    /\ EndOfCall(pc')
    /\ UNCHANGED <<strategy, source_db, target_db, expected_data, actual_data,
                   invoked, left, first>>

\* The alignment of the columns, strategy.validate and the return statement
AlignAndValidate ==
    /\ pc = "target_fetched"
    /\ LET q == ValidateQuery(strategy, source_db, target_db)
       IN  /\ outcome' = q.result
           /\ invoked' = q.trace
           /\ expected_data' = q.expected_data
           /\ actual_data' = q.actual_data
           /\ left' = IF q.ran
                      THEN ValidateEffect(strategy, q.expected_data,
                                          q.actual_data)
                      ELSE left
    /\ pc' = "done"
    /\ UNCHANGED <<strategy, source_db, target_db, queries, first>>

NextQuerySteps ==
    \/ QuerySource
    \/ QueryTarget
    \/ AlignAndValidate

SpecQuerySteps == Init /\ [][NextQuerySteps]_vars

-----
(* Claims *)

BothPresent(es, as) ==
    {i \in (DOMAIN es.data) \cap (DOMAIN as.data) :
        ~es.data[i].na /\ ~as.data[i].na}

\* C1: NumericValidation with tolerance t lists row i of a numeric column c
\* in differences[c] (in 'expected' and in 'actual', with the two values) if
\* |expected - actual| > t, never lists it if the difference is <= t (for the
\* rows present on both sides), and omits a column with no mismatching row.
NumericRowRule ==
    (pc = "done" /\ strategy.kind = "NumericValidation") =>
        /\ outcome.kind = "return"
        /\ \A c \in DOMAIN expected_data :
            expected_data[c].dtype = "float64" =>
                LET es == expected_data[c]
                    as == actual_data[c]
                    over == {i \in BothPresent(es, as) :
                                Abs(es.data[i].v - as.data[i].v)
                                    > strategy.tolerance}
                    within == BothPresent(es, as) \ over
                    diffs == outcome.differences
                IN  /\ (over = {}) <=> (c \notin DOMAIN diffs)
                    /\ c \in DOMAIN diffs =>
                        /\ \A i \in over :
                            /\ i \in DOMAIN diffs[c].expected
                            /\ i \in DOMAIN diffs[c].actual
                            /\ diffs[c].expected[i] = es.data[i]
                            /\ diffs[c].actual[i] = as.data[i]
                        /\ \A i \in within :
                            /\ i \notin DOMAIN diffs[c].expected
                            /\ i \notin DOMAIN diffs[c].actual

\* A run where one row of amt is listed, another row differs by exactly the
\* tolerance and is not listed, and the column qty is omitted
NumericRowRuleWitness ==
    /\ pc = "done"
    /\ strategy.kind = "NumericValidation"
    /\ outcome.kind = "return"
    /\ DOMAIN outcome.differences = {"amt"}
    /\ strategy.tolerance > 0
    /\ \E i, j \in BothPresent(expected_data["amt"], actual_data["amt"]) :
        /\ i \in DOMAIN outcome.differences["amt"].expected
        /\ j \notin DOMAIN outcome.differences["amt"].expected
        /\ Abs(expected_data["amt"].data[j].v - actual_data["amt"].data[j].v)
              = strategy.tolerance

\* The sub-strategies of the composite called, and what each returns
SubResult(i) ==
    ValidateRun(strategy.strategies[i], expected_data, actual_data).result

FailedSubs ==
    {i \in 1 .. Len(strategy.strategies) : SubResult(i).status = "fail"}

\* C2: CompositeValidation over any list of sub-strategies (several of one
\* variant included): the status is 'fail' iff some sub-strategy fails, every
\* sub-strategy is run, and the keys of differences are exactly the failed
\* sub-strategies, each mapping to that sub-strategy's own differences.
CompositeReport ==
    (pc = "done" /\ strategy.kind = "CompositeValidation"
        /\ outcome.kind = "return") =>
        /\ (outcome.status = "fail") <=> (FailedSubs # {})
        /\ \A i \in 1 .. Len(strategy.strategies) :
            \E k \in 1 .. Len(invoked) : invoked[k] = strategy.strategies[i]
        /\ \A i \in FailedSubs :
            /\ ClassName(strategy.strategies[i]) \in DOMAIN outcome.differences
            /\ outcome.differences[ClassName(strategy.strategies[i])]
                  = SubResult(i).differences
        /\ \A key \in DOMAIN outcome.differences :
            \E i \in FailedSubs : ClassName(strategy.strategies[i]) = key

\* C5: for each of the seven strategies (nested composites included) and
\* every input on which validate returns, status is 'pass' or 'fail', and it
\* is 'fail' if and only if differences is non-empty.
StatusIffDifferences ==
    (pc = "done" /\ outcome.kind = "return") =>
        /\ outcome.status \in {"pass", "fail"}
        /\ (outcome.status = "fail") <=> (DOMAIN outcome.differences # {})

\* A nested composite that fails because of a sub-strategy of its inner
\* composite
StatusIffDifferencesWitness ==
    /\ pc = "done"
    /\ outcome.kind = "return"
    /\ strategy.kind = "CompositeValidation"
    /\ outcome.status = "fail"
    /\ DOMAIN outcome.differences = {"CompositeValidation"}
    /\ DOMAIN outcome.differences["CompositeValidation"] # {}

\* The relative difference |e - a| / |e| * 100 of two statistics exceeds p
RelativeDiffExceeds(e, a, p) ==
    /\ ~e.nan /\ ~a.nan
    /\ IF ~e.root
       THEN Abs(e.num * a.den - a.num * e.den) * 100 > p * a.den * Abs(e.num)
       ELSE \/ a.num * e.den * 10000 > (100 + p) * (100 + p) * e.num * a.den
            \/ /\ p < 100
               /\ a.num * e.den * 10000
                    < (100 - p) * (100 - p) * e.num * a.den

\* C7: DistributionValidation with threshold_pct p flags a statistic of a
\* numeric column exactly when its expected value is non-zero (positive or
\* negative) and the relative percentage difference exceeds p; a statistic
\* whose expected value is 0 is never flagged.
DistributionFlagRule ==
    (pc = "done" /\ strategy.kind = "DistributionValidation") =>
        /\ outcome.kind = "return"
        /\ \A c \in DOMAIN expected_data :
            expected_data[c].dtype = "float64" =>
                \A stat \in StatNames :
                    LET e == SeriesStats(expected_data[c])[stat]
                        a == SeriesStats(actual_data[c])[stat]
                        flagged == /\ c \in DOMAIN outcome.differences
                                   /\ stat \in DOMAIN outcome.differences[c]
                    IN  flagged <=>
                            /\ ~e.nan
                            /\ e.num # 0
                            /\ RelativeDiffExceeds(e, a,
                                                   strategy.threshold_pct)

\* C8: PatternValidation validates the actual side: for a text column with a
\* pattern, whenever some actual value fails to match (a null counts as no
\* match), the status is 'fail' and that row is in the column's
\* invalid_values, which holds actual-side values only.
PatternActualConformance ==
    (pc = "done" /\ strategy.kind = "PatternValidation"
        /\ outcome.kind = "return") =>
        \A c \in (DOMAIN expected_data) \cap (DOMAIN strategy.patterns) :
            LET as == actual_data[c]
                bad == {i \in DOMAIN as.data :
                           as.data[i].na
                           \/ ~ReMatch(strategy.patterns[c], as.data[i].v)}
            IN  bad # {} =>
                    /\ outcome.status = "fail"
                    /\ c \in DOMAIN outcome.differences
                    /\ \A i \in bad :
                        /\ i \in DOMAIN outcome.differences[c].invalid_values
                        /\ outcome.differences[c].invalid_values[i] = as.data[i]

\* The rows of a timestamp column whose elapsed-time difference exceeds the
\* allowance: between the instants, or between the wall-clock times when
\* timezone_aware is false
ElapsedOver(es, as) ==
    {i \in BothPresent(es, as) :
        LET shift == IF strategy.timezone_aware THEN 0
                     ELSE TzOffset(es.tz) - TzOffset(as.tz)
        IN  Abs(es.data[i].v - as.data[i].v + shift)
                > strategy.allowed_difference}

\* C9: DateTimeValidation, for both settings of timezone_aware: if some row
\* of a timestamp column differs by more than allow_time_difference_seconds,
\* validate returns 'fail' and the column's detail lists exactly the
\* mismatching rows (expected, actual, difference in seconds); a column with
\* no such row is omitted.  (Stated for two columns of the same length that
\* are both tz-aware or both naive.)
DateTimeMismatchReported ==
    (pc = "done" /\ strategy.kind = "DateTimeValidation") =>
        \A c \in DOMAIN expected_data :
            (/\ expected_data[c].dtype = "datetime64"
             /\ DOMAIN expected_data[c].data = DOMAIN actual_data[c].data
             /\ (expected_data[c].tz = "none") = (actual_data[c].tz = "none"))
            => LET over == ElapsedOver(expected_data[c], actual_data[c])
               IN  /\ outcome.kind = "return"
                   /\ (over = {}) <=> (c \notin DOMAIN outcome.differences)
                   /\ over # {} =>
                        /\ outcome.status = "fail"
                        /\ DOMAIN outcome.differences[c].expected = over
                        /\ DOMAIN outcome.differences[c].actual = over
                        /\ DOMAIN outcome.differences[c].difference_seconds
                              = over

\* A value is null-like: missing, or (with the flag) '' or 'null/empty'
NullLike(s, i) ==
    \/ s.data[i].na
    \/ /\ strategy.treat_empty_as_null
       /\ s.dtype = "object"
       /\ s.data[i].v \in {"", "null/empty"}

EmptyAgainstMissing(es, as, i) ==
    /\ es.dtype = "object"
    /\ \/ (~es.data[i].na /\ es.data[i].v = "" /\ as.data[i].na)
       \/ (~as.data[i].na /\ as.data[i].v = "" /\ es.data[i].na)

Listed(c, i) ==
    /\ c \in DOMAIN outcome.differences
    /\ \E k \in 1 .. Len(outcome.differences[c].rows_with_differences) :
        outcome.differences[c].rows_with_differences[k] = i

CommonColumnsOnly ==
    (pc = "done" /\ source_db.kind = "return" /\ target_db.kind = "return") =>
        LET common == (DOMAIN source_db.frame) \cap (DOMAIN target_db.frame)
            r == ValidateRun(strategy, Restrict(source_db.frame, common),
                             Restrict(target_db.frame, common)).result
        IN  /\ DOMAIN expected_data = common
            /\ DOMAIN actual_data = common
            /\ (outcome.kind = "return") <=> (r.kind = "return")
            /\ outcome.kind = "return" =>
                /\ outcome.status = r.status
                /\ outcome.details
                      = IF r.status = "fail" THEN r.differences ELSE EmptyDict
                /\ strategy.kind # "CompositeValidation" =>
                      DOMAIN outcome.details \subseteq common

\* Each frame has a column of its own that the strategy would flag, and the
\* run fails on a common column alone
CommonColumnsOnlyWitness ==
    /\ pc = "done"
    /\ source_db.kind = "return"
    /\ target_db.kind = "return"
    /\ "qty" \in DOMAIN source_db.frame
    /\ "email" \in DOMAIN target_db.frame
    /\ strategy.kind = "PatternValidation"
    /\ outcome.kind = "return"
    /\ outcome.status = "fail"
    /\ DOMAIN outcome.details = {"name"}

\* C4: whatever fails inside validate_query (a fetch, the alignment, the
\* strategy), the exception that reaches the caller is a ValidationError
\* carrying the cause's message; no other kind of exception escapes.
OnlyValidationErrorEscapes ==
    (pc = "done" /\ source_db # NoDb /\ outcome.kind = "raise") =>
        /\ outcome.exc = "ValidationError"
        /\ outcome.cause # "none"

====
